---- MODULE Spec2Model ----
(***************************************************************************)
(* Order service of src/main.py: create_order and delete_order against the *)
(* products / orders / order_items tables.                                 *)
(*                                                                         *)
(* Money is counted in cents (Numeric columns hold exact decimals).        *)
(* A request body is a record; a missing, null or empty field is its falsy *)
(* value (customer_id 0, order_date <<>>, items <<>>).  A date string is a *)
(* sequence of one-character strings.                                      *)
(***************************************************************************)
EXTENDS Integers, Sequences, FiniteSets, TLC

VARIABLES
    db,      \* committed rows: products, orders, order_items, order_id_seq
    phase,   \* "idle" | "responded"
    req,     \* the request just handled (NoReq when idle)
    resp,    \* its response (NoResp when idle)
    pre,     \* the committed rows before the request just handled
    hist,    \* per order id: stock before and after its creation
    txn      \* concurrent workers: each one's open session

vars == <<db, phase, req, resp, pre, hist, txn>>

(***************************** bounds **************************************)
MaxOrders == 2      \* order ids the sequence may hand out
MaxQty == 2         \* largest quantity a request asks for

(************************** program constants ******************************)
MaxItems == 5

(***************************** the tables **********************************)
Today == <<2026, 11, 3>>

Customers == {1}

ProductIds == {1, 2}

InitProducts ==
    (1 :> [price |-> 500, stock_quantity |-> 5]) @@
    (2 :> [price |-> 250, stock_quantity |-> 1])

InitDb ==
    [products     |-> InitProducts,
     orders       |-> {},
     order_items  |-> <<>>,
     order_id_seq |-> 0]

Rows(d) == [products |-> d.products, orders |-> d.orders, order_items |-> d.order_items]

Stock(d) == [p \in DOMAIN d.products |-> d.products[p].stock_quantity]

OrderIdsOf(d) == {o.order_id : o \in d.orders}

(************************ date.fromisoformat *******************************)
Digits == <<"0", "1", "2", "3", "4", "5", "6", "7", "8", "9">>

IsDigit(c) == \E i \in 1..10 : Digits[i] = c

DigitVal(c) == (CHOOSE i \in 1..10 : Digits[i] = c) - 1

IsLeap(y) == (y % 4 = 0 /\ y % 100 # 0) \/ y % 400 = 0

DaysInMonth(y, m) ==
    IF m = 2 THEN (IF IsLeap(y) THEN 29 ELSE 28)
    ELSE IF m \in {4, 6, 9, 11} THEN 30 ELSE 31

\* The YYYY-MM-DD form the route documents; a string that is no calendar date
\* raises ValueError (ok = FALSE).  The date strings of DateInputs are either of
\* this form or rejected by every version of the parser.
fromisoformat(s) ==
    IF /\ Len(s) = 10
       /\ s[5] = "-" /\ s[8] = "-"
       /\ \A i \in {1, 2, 3, 4, 6, 7, 9, 10} : IsDigit(s[i])
    THEN LET y == 1000 * DigitVal(s[1]) + 100 * DigitVal(s[2])
                  + 10 * DigitVal(s[3]) + DigitVal(s[4])
             m == 10 * DigitVal(s[6]) + DigitVal(s[7])
             d == 10 * DigitVal(s[9]) + DigitVal(s[10])
         IN  IF y >= 1 /\ m \in 1..12 /\ d >= 1 /\ d <= DaysInMonth(y, m)
             THEN [ok |-> TRUE, date |-> <<y, m, d>>]
             ELSE [ok |-> FALSE, date |-> <<0, 0, 0>>]
    ELSE [ok |-> FALSE, date |-> <<0, 0, 0>>]

\* date.__lt__
DateLess(a, b) ==
    \/ a[1] < b[1]
    \/ a[1] = b[1] /\ a[2] < b[2]
    \/ a[1] = b[1] /\ a[2] = b[2] /\ a[3] < b[3]

(***************************** responses ***********************************)
Response(status, error, detail, order_id) ==
    [status |-> status, error |-> error, detail |-> detail, order_id |-> order_id]

NoResp == Response(0, "", 0, 0)

(***************************** create_order ********************************)
Outcome(response, d) == [resp |-> response, db |-> d]

\* The first loop adding the bare price of each item to the total.
RECURSIVE validate_items_unit_price(_, _, _, _)
validate_items_unit_price(products, items, i, total_amount) ==
    IF i > Len(items)
    THEN [ok |-> TRUE, error |-> "", detail |-> 0, total_amount |-> total_amount]
    ELSE LET item == items[i] IN
         IF item.product_id \notin DOMAIN products
         THEN [ok |-> FALSE, error |-> "product_not_found",
               detail |-> item.product_id, total_amount |-> 0]
         ELSE IF products[item.product_id].stock_quantity < item.quantity
         THEN [ok |-> FALSE, error |-> "insufficient_stock",
               detail |-> item.product_id, total_amount |-> 0]
         ELSE validate_items_unit_price(products, items, i + 1,
                  total_amount + products[item.product_id].price)

\* The first loop letting a request take one more than the stock.
RECURSIVE validate_items_off_by_one(_, _, _, _)
validate_items_off_by_one(products, items, i, total_amount) ==
    IF i > Len(items)
    THEN [ok |-> TRUE, error |-> "", detail |-> 0, total_amount |-> total_amount]
    ELSE LET item == items[i] IN
         IF item.product_id \notin DOMAIN products
         THEN [ok |-> FALSE, error |-> "product_not_found",
               detail |-> item.product_id, total_amount |-> 0]
         ELSE IF products[item.product_id].stock_quantity + 1 < item.quantity
         THEN [ok |-> FALSE, error |-> "insufficient_stock",
               detail |-> item.product_id, total_amount |-> 0]
         ELSE validate_items_off_by_one(products, items, i + 1,
                  total_amount + products[item.product_id].price * item.quantity)

\* First loop: look every item's product up, check its stock, add up the total.
RECURSIVE validate_items(_, _, _, _)
validate_items(products, items, i, total_amount) ==
    IF i > Len(items)
    THEN [ok |-> TRUE, error |-> "", detail |-> 0, total_amount |-> total_amount]
    ELSE LET item == items[i] IN
         IF item.product_id \notin DOMAIN products
         THEN [ok |-> FALSE, error |-> "product_not_found",
               detail |-> item.product_id, total_amount |-> 0]
         ELSE IF products[item.product_id].stock_quantity < item.quantity
         THEN [ok |-> FALSE, error |-> "insufficient_stock",
               detail |-> item.product_id, total_amount |-> 0]
         ELSE validate_items(products, items, i + 1,
                  total_amount + products[item.product_id].price * item.quantity)

\* Order(...), session.add, session.flush: the INSERT draws the next order_id
\* from the sequence (never handed back) and checks the customer foreign key.
flush_order(d, customer_id, order_date, total_amount) ==
    LET order_id == d.order_id_seq + 1 IN
    IF customer_id \notin Customers
    THEN [ok |-> FALSE, order_id |-> order_id,
          sess |-> [d EXCEPT !.order_id_seq = order_id]]
    ELSE [ok |-> TRUE, order_id |-> order_id,
          sess |-> [d EXCEPT
                      !.order_id_seq = order_id,
                      !.orders = @ \cup {[order_id     |-> order_id,
                                          customer_id  |-> customer_id,
                                          order_date   |-> order_date,
                                          total_amount |-> total_amount,
                                          status       |-> "Pending"]},
                      !.order_items = @ @@ (order_id :> <<>>)]]

\* The second loop lowering the stock by one per item, whatever its quantity.
RECURSIVE add_items_unit(_, _, _, _, _)
add_items_unit(sess, order_id, items, i, n) ==
    IF i > n THEN sess
    ELSE LET item == items[i]
             product == sess.products[item.product_id]
             order_item == [product_id |-> item.product_id,
                            quantity   |-> item.quantity,
                            price      |-> product.price]
         IN  add_items_unit([sess EXCEPT
                          !.products[item.product_id].stock_quantity = @ - 1,
                          !.order_items[order_id] = Append(@, order_item)],
                       order_id, items, i + 1, n)

\* Second loop, iterations i..n: one OrderItem per item with the price snapshot,
\* and the product's stock lowered in the session.
RECURSIVE add_items(_, _, _, _, _)
add_items(sess, order_id, items, i, n) ==
    IF i > n THEN sess
    ELSE LET item == items[i]
             product == sess.products[item.product_id]
             order_item == [product_id |-> item.product_id,
                            quantity   |-> item.quantity,
                            price      |-> product.price]
         IN  add_items([sess EXCEPT
                          !.products[item.product_id].stock_quantity = @ - item.quantity,
                          !.order_items[order_id] = Append(@, order_item)],
                       order_id, items, i + 1, n)

\* A mutation phase that writes every statement through (no transaction).
commit_each_statement(d, sess, reached) == sess

\* session.commit() is the one place the session's rows become the committed
\* rows.  The handler catches nothing, so a request that raises before it ends
\* with its session discarded and the committed rows left alone (the sequence
\* value it drew stays drawn).
commit(d, sess, reached) ==
    IF reached THEN sess ELSE [d EXCEPT !.order_id_seq = sess.order_id_seq]

\* fault = 0: the storage layer works.  fault = k > 0: it raises right after the
\* flush (k = 1) or after the (k-1)-th iteration of the second loop.
create_order(d, data, fault) ==
    LET customer_id == data.customer_id
        order_date_str == data.order_date
        items == data.items
    IN
    IF customer_id = 0 \/ order_date_str = <<>> \/ items = <<>>
    THEN Outcome(Response(400, "required", 0, 0), d)
    ELSE IF Len(items) > MaxItems
    THEN Outcome(Response(400, "too_many_items", 0, 0), d)
    ELSE LET parsed == fromisoformat(order_date_str) IN
    IF ~parsed.ok
    THEN Outcome(Response(500, "ValueError", 0, 0), d)
    ELSE IF DateLess(parsed.date, Today)
    THEN Outcome(Response(400, "past_date", 0, 0), d)
    ELSE LET v == validate_items(d.products, items, 1, 0) IN
    IF ~v.ok
    THEN Outcome(Response(400, v.error, v.detail, 0), d)
    ELSE LET new_order == flush_order(d, customer_id, parsed.date, v.total_amount) IN
    IF ~new_order.ok
    THEN Outcome(Response(500, "IntegrityError", 0, 0), commit(d, new_order.sess, FALSE))
    ELSE LET n == IF fault = 0 THEN Len(items) ELSE fault - 1
             sess == add_items(new_order.sess, new_order.order_id, items, 1, n)
         IN  IF fault # 0
             THEN Outcome(Response(500, "StorageError", 0, 0), commit(d, sess, FALSE))
             ELSE Outcome(Response(201, "", 0, new_order.order_id), commit(d, sess, TRUE))

(***************************** delete_order ********************************)
\* A delete that gives no stock back.
restore_items_none(sess, order_items, i) == sess

RECURSIVE restore_items(_, _, _)
restore_items(sess, order_items, i) ==
    IF i > Len(order_items) THEN sess
    ELSE restore_items(
             [sess EXCEPT !.products[order_items[i].product_id].stock_quantity =
                              @ + order_items[i].quantity],
             order_items, i + 1)

delete_order(d, order_id) ==
    IF order_id \notin OrderIdsOf(d)
    THEN Outcome(Response(404, "order_not_found", order_id, 0), d)
    ELSE LET restored == restore_items(d, d.order_items[order_id], 1)
             sess == [restored EXCEPT
                        !.order_items = [o \in DOMAIN @ \ {order_id} |-> @[o]],
                        !.orders = {o \in @ : o.order_id # order_id}]
         IN  Outcome(Response(200, "", 0, order_id), sess)

(***************************** the requests ********************************)
Item(p, q) == [product_id |-> p, quantity |-> q]

Repeat(x, n) == [i \in 1..n |-> x]

ProductIdInputs == ProductIds \cup {3}

Quantities == (-1)..MaxQty

Items == {Item(p, q) : p \in ProductIdInputs, q \in Quantities}

FirstItems == {Item(p, q) : p \in ProductIdInputs, q \in {-1, 1}}

SecondItems == {Item(p, 1) : p \in ProductIdInputs}

ItemLists ==
    {<<>>}
    \cup {<<a>> : a \in Items}
    \cup {<<a, b>> : a \in FirstItems, b \in SecondItems}
    \cup {Repeat(Item(1, 1), n) : n \in {MaxItems, MaxItems + 1}}

ProbeLists == {<<>>, <<Item(1, 1)>>, <<Item(3, 1)>>, Repeat(Item(1, 1), MaxItems + 1)}

CustomerInputs == {0, 1, 2}

Yesterday == <<"2", "0", "2", "6", "-", "1", "1", "-", "0", "2">>
TodayStr  == <<"2", "0", "2", "6", "-", "1", "1", "-", "0", "3">>
Tomorrow  == <<"2", "0", "2", "6", "-", "1", "1", "-", "0", "4">>
Month13   == <<"2", "0", "2", "6", "-", "1", "3", "-", "0", "1">>
Slashes   == <<"1", "1", "/", "0", "3", "/", "2", "0", "2", "6">>

DateInputs == {<<>>, Yesterday, TodayStr, Tomorrow, Month13, Slashes}

\* Every item list under the plain header; every header with the probe lists.
Requests ==
    {r \in [customer_id : CustomerInputs, order_date : DateInputs, items : ItemLists] :
        \/ r.customer_id = 1 /\ r.order_date = TodayStr
        \/ r.items \in ProbeLists}

Faults(r) == 0..(Len(r.items) + 1)

OrderIdInputs == 1..MaxOrders

NoReq == [op |-> "none", data |-> [customer_id |-> 0, order_date |-> <<>>, items |-> <<>>],
          fault |-> 0, order_id |-> 0]

NoStock == [p \in ProductIds |-> 0]

NoHist == [st |-> "none", before |-> NoStock, after |-> NoStock]

(************************* concurrent workers ******************************)
\* Each worker serves one request at a time in its own session.  The engine
\* runs READ COMMITTED (the connection URI sets no isolation level): a query sees
\* the rows committed so far, a session keeps the rows it has loaded, and the
\* flush at commit writes the values the session computed.
Workers == {1, 2}

IdleTxn == [pc |-> "idle", items |-> <<>>, i |-> 0, loaded |-> <<>>,
            total_amount |-> 0, order_id |-> 0]

ConcItemLists == {<<Item(p, q)>> : p \in ProductIds, q \in 1..MaxQty}

\* Product.query.get: the session's own copy if it has one, else the committed row.
query_get(d, loaded, product_id) ==
    IF product_id \in DOMAIN loaded THEN loaded
    ELSE loaded @@ (product_id :> d.products[product_id].stock_quantity)

\* The committed rows as the session sees them: its loaded products over the rest.
session_view(d, loaded) ==
    [d EXCEPT !.products = [p \in DOMAIN @ |->
        IF p \in DOMAIN loaded THEN [@[p] EXCEPT !.stock_quantity = loaded[p]] ELSE @[p]]]

SoldQty(d, p) ==
    LET RECURSIVE Sum(_, _)
        Sum(rows, i) == IF i > Len(rows) THEN 0
                        ELSE (IF rows[i].product_id = p THEN rows[i].quantity ELSE 0)
                             + Sum(rows, i + 1)
        RECURSIVE Over(_)
        Over(os) == IF os = {} THEN 0
                    ELSE LET o == CHOOSE x \in os : TRUE
                         IN  Sum(d.order_items[o], 1) + Over(os \ {o})
    IN  Over(DOMAIN d.order_items)

(****************************** the actions ********************************)
Init ==
    /\ db = InitDb
    /\ phase = "idle"
    /\ req = NoReq
    /\ resp = NoResp
    /\ pre = InitDb
    /\ hist = [o \in OrderIdInputs |-> NoHist]
    /\ txn = [w \in Workers |-> IdleTxn]

\* POST /orders
CreateOrder ==
    /\ phase = "idle"
    /\ \E r \in Requests : \E f \in Faults(r) :
         LET out == create_order(db, r, f) IN
         /\ f # 0 => create_order(db, r, 0).resp.status = 201
         /\ out.db.order_id_seq <= MaxOrders
         /\ db' = out.db
         /\ resp' = out.resp
         /\ req' = [op |-> "create", data |-> r, fault |-> f, order_id |-> 0]
         /\ hist' = IF out.resp.status = 201
                    THEN [hist EXCEPT ![out.resp.order_id] =
                            [st |-> "live", before |-> Stock(db), after |-> Stock(out.db)]]
                    ELSE hist
    /\ pre' = db
    /\ phase' = "responded"
    /\ UNCHANGED txn

\* DELETE /orders/<order_id>
DeleteOrder ==
    /\ phase = "idle"
    /\ \E order_id \in OrderIdInputs :
         LET out == delete_order(db, order_id) IN
         /\ db' = out.db
         /\ resp' = out.resp
         /\ req' = [NoReq EXCEPT !.op = "delete", !.order_id = order_id]
         /\ hist' = IF out.resp.status = 200
                    THEN [hist EXCEPT ![order_id].st = "deleted"]
                    ELSE hist
    /\ pre' = db
    /\ phase' = "responded"
    /\ UNCHANGED txn

\* The response leaves; the per-request history is dropped.
SendResponse ==
    /\ phase = "responded"
    /\ phase' = "idle"
    /\ req' = NoReq
    /\ resp' = NoResp
    /\ pre' = db
    /\ hist' = [o \in OrderIdInputs |->
                  IF hist[o].st = "deleted" THEN [NoHist EXCEPT !.st = "deleted"] ELSE hist[o]]
    /\ UNCHANGED <<db, txn>>

Next == CreateOrder \/ DeleteOrder \/ SendResponse

Spec == Init /\ [][Next]_vars

(********************** the actions, request by statement ******************)
SeqVars == <<phase, req, resp, pre, hist>>

\* POST /orders arrives at a worker.
BeginCreate(w) ==
    /\ txn[w].pc = "idle"
    /\ \E items \in ConcItemLists :
         txn' = [txn EXCEPT ![w] = [IdleTxn EXCEPT !.pc = "validate", !.items = items, !.i = 1]]
    /\ UNCHANGED <<db, SeqVars>>

\* One iteration of the first loop.
ValidateItem(w) ==
    /\ txn[w].pc = "validate"
    /\ LET t == txn[w]
           item == t.items[t.i]
       IN  IF item.product_id \notin DOMAIN db.products
           THEN txn' = [txn EXCEPT ![w] = IdleTxn]
           ELSE LET loaded == query_get(db, t.loaded, item.product_id) IN
                IF loaded[item.product_id] < item.quantity
                THEN txn' = [txn EXCEPT ![w] = IdleTxn]
                ELSE txn' = [txn EXCEPT ![w] =
                        [t EXCEPT !.loaded = loaded,
                                  !.total_amount = @ + db.products[item.product_id].price
                                                       * item.quantity,
                                  !.i = @ + 1,
                                  !.pc = IF t.i = Len(t.items) THEN "flush" ELSE "validate"]]
    /\ UNCHANGED <<db, SeqVars>>

\* session.flush(): the INSERT draws the order id.
FlushOrder(w) ==
    /\ txn[w].pc = "flush"
    /\ db.order_id_seq < MaxOrders
    /\ db' = [db EXCEPT !.order_id_seq = @ + 1]
    /\ txn' = [txn EXCEPT ![w].pc = "commit", ![w].order_id = db.order_id_seq + 1]
    /\ UNCHANGED SeqVars

\* The second loop (in the session) and session.commit().
CommitOrder(w) ==
    /\ txn[w].pc = "commit"
    /\ LET t == txn[w]
           view == [session_view(db, t.loaded) EXCEPT !.order_id_seq = t.order_id - 1]
           new_order == flush_order(view, 1, Today, t.total_amount)
           sess == add_items(new_order.sess, t.order_id, t.items, 1, Len(t.items))
       IN  db' = [commit(db, sess, TRUE) EXCEPT !.order_id_seq = db.order_id_seq]
    /\ txn' = [txn EXCEPT ![w] = IdleTxn]
    /\ UNCHANGED SeqVars

\* DELETE /orders/<id> arrives: the order, its items and their products are read.
BeginDelete(w) ==
    /\ txn[w].pc = "idle"
    /\ \E order_id \in OrderIdsOf(db) :
         LET rows == db.order_items[order_id]
             RECURSIVE Load(_, _)
             Load(loaded, i) == IF i > Len(rows) THEN loaded
                                ELSE Load(query_get(db, loaded, rows[i].product_id), i + 1)
         IN  txn' = [txn EXCEPT ![w] =
                 [IdleTxn EXCEPT !.pc = "delete", !.items = rows,
                                 !.loaded = Load(<<>>, 1), !.order_id = order_id]]
    /\ UNCHANGED <<db, SeqVars>>

\* The loop of delete_order (in the session) and session.commit().
CommitDelete(w) ==
    /\ txn[w].pc = "delete"
    /\ LET t == txn[w]
           restored == restore_items(session_view(db, t.loaded), t.items, 1)
       IN  db' = [restored EXCEPT
                    !.order_items = [o \in DOMAIN @ \ {t.order_id} |-> @[o]],
                    !.orders = {o \in @ : o.order_id # t.order_id}]
    /\ txn' = [txn EXCEPT ![w] = IdleTxn]
    /\ UNCHANGED SeqVars

NextConc ==
    \E w \in Workers :
        \/ BeginCreate(w)
        \/ ValidateItem(w)
        \/ FlushOrder(w)
        \/ CommitOrder(w)
        \/ BeginDelete(w)
        \/ CommitDelete(w)

SpecConc == Init /\ [][NextConc]_vars

(************************* vocabulary of the claims ************************)
CreateHandled == phase = "responded" /\ req.op = "create"

DeleteHandled == phase = "responded" /\ req.op = "delete"

Unchanged == Rows(db) = Rows(pre)

\* The quantity a list asks of product p, over all its items.
RECURSIVE Requested(_, _)
Requested(items, p) ==
    IF items = <<>> THEN 0
    ELSE (IF Head(items).product_id = p THEN Head(items).quantity ELSE 0)
         + Requested(Tail(items), p)

\* Sum of price x quantity at the prices of the given product rows.
RECURSIVE PriceTimesQuantity(_, _)
PriceTimesQuantity(items, products) ==
    IF items = <<>> THEN 0
    ELSE products[Head(items).product_id].price * Head(items).quantity
         + PriceTimesQuantity(Tail(items), products)

DateNotPast(s) == s \in {TodayStr, Tomorrow}

DateUnparseable(s) == s \in {Month13, Slashes}

ItemMissingProduct(item) == item.product_id \notin DOMAIN pre.products

ItemShortOfStock(item) ==
    /\ item.product_id \in DOMAIN pre.products
    /\ pre.products[item.product_id].stock_quantity < item.quantity

\* Every field valid and every item in stock, item by item, before the request.
ValidRequest(r) ==
    /\ r.customer_id \in Customers
    /\ DateNotPast(r.order_date)
    /\ Len(r.items) \in 1..MaxItems
    /\ \A i \in 1..Len(r.items) :
         ~ItemMissingProduct(r.items[i]) /\ ~ItemShortOfStock(r.items[i])

NewOrders == db.orders \ pre.orders

(******************************* C1 ****************************************)
\* C1: a create_order request with a valid customer, a date not before today and
\* 1 to 5 items, each naming an existing product whose stock covers the item's
\* quantity, succeeds with 201 and a new order_id; the stored order's
\* total_amount is the exact sum of price x quantity, and every product's stock
\* is lower than before by exactly the quantity the list asks of it.
C1_ValidOrderCreated ==
    (CreateHandled /\ req.fault = 0 /\ ValidRequest(req.data)) =>
        /\ resp.status = 201
        /\ resp.order_id \notin OrderIdsOf(pre)
        /\ \E o \in NewOrders :
             /\ NewOrders = {o}
             /\ o.order_id = resp.order_id
             /\ o.total_amount = PriceTimesQuantity(req.data.items, pre.products)
        /\ Len(db.order_items[resp.order_id]) = Len(req.data.items)
        /\ \A p \in ProductIds :
             db.products[p].stock_quantity =
                 pre.products[p].stock_quantity - Requested(req.data.items, p)

C1_Witness ==
    /\ CreateHandled /\ req.fault = 0 /\ ValidRequest(req.data)
    /\ Len(req.data.items) = MaxItems
    /\ resp.status = 201
    /\ db.products[1].stock_quantity = 0

(******************************* C2 ****************************************)
FailsValidation(r) ==
    \/ r.customer_id = 0 \/ r.order_date = <<>> \/ r.items = <<>>
    \/ Len(r.items) > MaxItems
    \/ r.order_date = Yesterday
    \/ \E i \in 1..Len(r.items) :
         ItemMissingProduct(r.items[i]) \/ ItemShortOfStock(r.items[i])

\* C2: a create_order request that fails a validation (missing field, more than
\* 5 items, date before today, an item naming a nonexistent product, an item
\* asking more than the stock) is refused and leaves products, orders and order
\* items as they were, also when earlier items of the list were valid.
C2_RejectedChangesNothing ==
    (CreateHandled /\ FailsValidation(req.data)) =>
        resp.status # 201 /\ Unchanged

C2_Witness ==
    /\ CreateHandled /\ resp.error = "insufficient_stock"
    /\ Len(req.data.items) = 2
    /\ ~ItemMissingProduct(req.data.items[1]) /\ ~ItemShortOfStock(req.data.items[1])
    /\ req.data.items[1].quantity >= 1
    /\ ItemShortOfStock(req.data.items[2])
    /\ Unchanged

C3_SecondDelete ==
    DeleteHandled /\ hist[req.order_id].st = "deleted" /\ resp.status = 404

(******************************* C4 ****************************************)
\* C4: in every reachable state every product's stock_quantity is a
\* non-negative integer.
C4_StockNonNegative ==
    \A p \in ProductIds : db.products[p].stock_quantity >= 0

(******************************* C5 ****************************************)
\* C5: under any interleaving of concurrent create_order and delete_order
\* requests no product is oversold (the quantities of its committed order items
\* never exceed the stock there was) and no decrement or restoration is lost
\* (stock plus committed quantities stays the initial stock).
C5_NeverOversold ==
    \A p \in ProductIds :
        /\ SoldQty(db, p) <= InitProducts[p].stock_quantity
        /\ db.products[p].stock_quantity + SoldQty(db, p) = InitProducts[p].stock_quantity

(******************************* C6 ****************************************)
\* C6: when create_order has passed its validations and the storage layer then
\* fails between the flush and the commit, nothing of the request persists: no
\* new Order row, no new OrderItem row, every stock as before.
C6_FailureLeavesNothing ==
    (CreateHandled /\ resp.error \in {"StorageError", "IntegrityError"}) =>
        /\ resp.status = 500
        /\ db.orders = pre.orders
        /\ db.order_items = pre.order_items
        /\ Stock(db) = Stock(pre)

C6_Witness ==
    /\ CreateHandled /\ resp.error = "StorageError"
    /\ req.fault = Len(req.data.items) + 1
    /\ Len(req.data.items) >= 2
    /\ \A i \in 1..Len(req.data.items) : req.data.items[i].quantity >= 1
    /\ Unchanged

(******************************* C7 ****************************************)
\* C7: every stored OrderItem has a quantity >= 1, and a request holding an item
\* of quantity zero or less stores nothing, raises no stock and is no order.
C7_QuantitiesPositive ==
    /\ \A o \in DOMAIN db.order_items :
         \A i \in 1..Len(db.order_items[o]) : db.order_items[o][i].quantity >= 1
    /\ (CreateHandled /\ \E i \in 1..Len(req.data.items) : req.data.items[i].quantity <= 0)
           => resp.status # 201 /\ Unchanged

(******************************* C8 ****************************************)
\* C8: a create_order request whose order_date is no calendar date (and that
\* passes the checks before the date check) is answered 400 with the same
\* invalid-date error as a date before today, and changes nothing.
C8_UnparseableDateIs400 ==
    (/\ CreateHandled
     /\ req.data.customer_id # 0
     /\ Len(req.data.items) \in 1..MaxItems
     /\ DateUnparseable(req.data.order_date)) =>
        resp.status = 400 /\ resp.error = "past_date" /\ Unchanged

(******************************* C9 ****************************************)
\* The rule a request breaks first, in the order: required field, item count,
\* date, then item by item product-not-found before insufficient-stock.
RECURSIVE FirstBadItem(_, _)
FirstBadItem(items, i) ==
    IF i > Len(items) THEN "none"
    ELSE IF ItemMissingProduct(items[i]) THEN "product_not_found"
    ELSE IF ItemShortOfStock(items[i]) THEN "insufficient_stock"
    ELSE FirstBadItem(items, i + 1)

FirstRuleBroken(r) ==
    IF r.customer_id = 0 \/ r.order_date = <<>> \/ r.items = <<>> THEN "required"
    ELSE IF Len(r.items) > MaxItems THEN "too_many_items"
    ELSE IF ~DateNotPast(r.order_date) THEN "past_date"
    ELSE FirstBadItem(r.items, 1)

\* C9: a request that breaks a validation rule is answered 400 with the error of
\* the first rule it breaks, in the fixed order above.
C9_FirstRuleReported ==
    (CreateHandled /\ FirstRuleBroken(req.data) # "none") =>
        resp.status = 400 /\ resp.error = FirstRuleBroken(req.data)

(******************************* C10 ***************************************)
\* C10: with requests served one at a time, for every product stock_quantity
\* plus the quantities of all existing OrderItems naming it is the product's
\* initial stock_quantity.
C10_StockConserved ==
    \A p \in ProductIds :
        db.products[p].stock_quantity + SoldQty(db, p) = InitProducts[p].stock_quantity

C10_Witness ==
    /\ DeleteHandled /\ resp.status = 200
    /\ Cardinality(db.orders) = 1
    /\ \A p \in ProductIds : SoldQty(db, p) > 0

====
